---------------------------- MODULE Spec2Model ----------------------------
(***************************************************************************)
(* Model of the planner pipeline of agent/src: create_graph (graph.py)     *)
(* resolves the two model identifiers, builds the two LLM nodes with       *)
(* make_llm_node, wires START -> goal_decomp -> task_decomp -> END and     *)
(* compiles the plan; a run threads the state record of state.py through   *)
(* the nodes.  Two further specifications exercise make_llm_node's node    *)
(* on arbitrary states (SpecNode) and make_skill_text (SpecSkill).         *)
(*                                                                         *)
(* Python values are modelled by records of one shape (PyList, PyMap,      *)
(* PyDump, PyStr), list elements and model payloads by natural numbers.    *)
(***************************************************************************)
EXTENDS Naturals, Sequences, FiniteSets, TLC

VARIABLES
    cfg,          \* config.runner.<node>.model_name, per node
    initial,      \* the state object the caller built with make_state
    pc,           \* position of the program: build steps, then the run
    cur,          \* the node whose client create_graph is building
    resolved,     \* per node: the ModelNames member resolved, or NoMember
    clients,      \* per node: the ChatOpenAI client built, or NoClient
    plan,         \* the compiled graph: nodes, edges, node callables
    state,        \* the working state of the run
    frontier,     \* the nodes the runner has scheduled in the current step
    nodePc,       \* per node: "idle", "started", "called", "returned"
    invoked,      \* the node names in the order their callables were entered
    calls,        \* per node: number of chain.invoke calls issued
    response,     \* per node: what the model client answered, or NoResponse
    nodeInputs,   \* per node: the local `inputs` mapping passed to the chain
    result,       \* per node: the local `result`
    error,        \* the exception that reached the caller, or NoError
    failedNode,   \* the node (or build step) the exception came from
    returned,     \* what graph.invoke returned to the caller
    gnode,        \* SpecNode: the node built by make_llm_node
    gstate,       \* SpecNode: the state the node is invoked on
    gprior,       \* SpecNode: the state before the invocation
    gpc,          \* SpecNode: "ready", "called", "returned", "raised"
    gresult,      \* SpecNode: the local `result`
    gerr,         \* SpecNode: the exception the node raised, or NoError
    config_skills,\* SpecSkill: the argument of make_skill_text
    skill_text,   \* SpecSkill: the value make_skill_text returned
    spc           \* SpecSkill: "ready", "rendered"

pvars == <<cfg, initial, pc, cur, resolved, clients, plan, state, frontier,
           nodePc, invoked, calls, response, nodeInputs, result, error,
           failedNode, returned>>
nvars == <<gnode, gstate, gprior, gpc, gresult, gerr>>
svars == <<config_skills, skill_text, spc>>
vars == <<pvars, nvars, svars>>

-----------------------------------------------------------------------------
(* Bounds of the model *)

\* number of distinct payloads a model response can carry
NumPayloads == 2
\* number of distinct user queries / environment descriptions
NumQueries == 2
\* longest list held by a state field in SpecNode's initial states
MaxLen == 2
\* most robots in a skill configuration
MaxRobots == 2
\* most skills per robot
MaxSkills == 3

Payloads == 1..NumPayloads
Queries == 1..NumQueries

-----------------------------------------------------------------------------
(* Python values *)

NoMap == [k \in {} |-> ""]

PyList(s) == [kind |-> "list", items |-> s, data |-> 0, map |-> NoMap]
PyMap(m) == [kind |-> "dict", items |-> <<>>, data |-> 0, map |-> m]
\* the dict model_dump() returns for a parsed object carrying payload p
PyDump(p) == [kind |-> "dict", items |-> <<>>, data |-> p, map |-> NoMap]
PyStr(p) == [kind |-> "str", items |-> <<>>, data |-> p, map |-> NoMap]
PyMessage(p) == [kind |-> "message", items |-> <<>>, data |-> p, map |-> NoMap]
PyNone == [kind |-> "none", items |-> <<>>, data |-> 0, map |-> NoMap]

NoError == "none"
NoMember == "none"
NoClient == [model |-> "none", extra_body |-> "none"]
NoPlan == [nodes |-> {}, edges |-> {}, compiled |-> FALSE]
NoResponse == [transport |-> "none", wellformed |-> FALSE, payload |-> 0]

-----------------------------------------------------------------------------
(* enums.ModelNames and _resolve_model_enum *)

\* the members of the enumeration, by symbolic name
ModelNames == {"gpt41mini", "gpt4o"}

\* member.value
ModelValue(m) == IF m = "gpt41mini" THEN "gpt-4.1-mini" ELSE "gpt-4o"

\* an identifier is an enumeration member or a string
Member(m) == [isMember |-> TRUE, text |-> m]
Str(s) == [isMember |-> FALSE, text |-> s]

ModelIds == {Member("gpt41mini"), Str("gpt41mini"), Str("gpt-4o"),
             Str("not-a-real-model")}

\* mutant: an identifier that matches nothing falls back to a member
resolve_model_enum_fallback(model_name) ==
    IF model_name.isMember
    THEN [ok |-> TRUE, member |-> model_name.text, err |-> NoError]
    ELSE IF \E m \in ModelNames : ModelValue(m) = model_name.text
    THEN [ok |-> TRUE,
          member |-> CHOOSE m \in ModelNames : ModelValue(m) = model_name.text,
          err |-> NoError]
    ELSE IF model_name.text \in ModelNames
    THEN [ok |-> TRUE, member |-> model_name.text, err |-> NoError]
    ELSE [ok |-> TRUE, member |-> "gpt41mini", err |-> NoError]

\* isinstance -> the member; ModelNames(value); on ValueError ModelNames[name],
\* whose miss raises KeyError
resolve_model_enum(model_name) ==
    IF model_name.isMember
    THEN [ok |-> TRUE, member |-> model_name.text, err |-> NoError]
    ELSE IF \E m \in ModelNames : ModelValue(m) = model_name.text
    THEN [ok |-> TRUE,
          member |-> CHOOSE m \in ModelNames : ModelValue(m) = model_name.text,
          err |-> NoError]
    ELSE IF model_name.text \in ModelNames
    THEN [ok |-> TRUE, member |-> model_name.text, err |-> NoError]
    ELSE [ok |-> FALSE, member |-> NoMember, err |-> "KeyError"]

\* config.runner.<node>.prompt_cache_key
prompt_cache_key(n) ==
    IF n = "goal_decomp" THEN "goal_decomp_node" ELSE "task_decomp_node"

\* ChatOpenAI(model=model_name.value, extra_body={"prompt_cache_key": key})
create_llm(model_name, cache_key) ==
    [model |-> ModelValue(model_name),
     extra_body |-> IF cache_key # "" THEN cache_key ELSE "none"]

-----------------------------------------------------------------------------
(* make_llm_node *)

\* the closure make_llm_node returns: the parser chosen at build time, whether
\* format instructions exist, and the merge policy
make_llm_node(parser_output, state_key, state_append, skip_parser) ==
    [state_key |-> state_key,
     state_append |-> state_append,
     parser |-> IF skip_parser THEN "none"
                ELSE IF parser_output # "none" THEN "pydantic" ELSE "str",
     format_instructions |-> (~skip_parser) /\ parser_output # "none"]

\* a model response: the transport failed, or text arrived that is or is not
\* valid for the node's schema
Responses ==
    {[transport |-> "error", wellformed |-> FALSE, payload |-> 0],
     [transport |-> "ok", wellformed |-> FALSE, payload |-> 0]}
    \cup {[transport |-> "ok", wellformed |-> TRUE, payload |-> p] :
            p \in Payloads}

\* chain.invoke(inputs): prompt | llm | parser
chain_invoke(node, resp) ==
    IF resp.transport = "error"
    THEN [ok |-> FALSE, err |-> "APIConnectionError", value |-> PyNone]
    ELSE IF node.parser = "pydantic"
    THEN IF resp.wellformed
         THEN [ok |-> TRUE, err |-> NoError,
               value |-> [kind |-> "pydantic", items |-> <<>>,
                          data |-> resp.payload, map |-> NoMap]]
         ELSE [ok |-> FALSE, err |-> "OutputParserException", value |-> PyNone]
    ELSE IF node.parser = "str"
    THEN [ok |-> TRUE, err |-> NoError, value |-> PyStr(resp.payload)]
    ELSE [ok |-> TRUE, err |-> NoError, value |-> PyMessage(resp.payload)]

\* if isinstance(parser, PydanticOutputParser): result = result.model_dump()
model_dump(node, value) ==
    IF node.parser = "pydantic" THEN PyDump(value.data) ELSE value

\* the element a value becomes when it is appended to a list
Element(value) == value.data

\* if state_append: state[state_key].append(result)
\* else: state[state_key] = result
commit(st, node, value) ==
    IF node.state_append
    THEN IF node.state_key \notin DOMAIN st
         THEN [ok |-> FALSE, err |-> "KeyError", state |-> st]
         ELSE IF st[node.state_key].kind # "list"
         THEN [ok |-> FALSE, err |-> "AttributeError", state |-> st]
         ELSE [ok |-> TRUE, err |-> NoError,
               state |-> [st EXCEPT ![node.state_key] =
                            PyList(Append(@.items, Element(value)))]]
    ELSE [ok |-> TRUE, err |-> NoError,
          state |-> [k \in DOMAIN st \cup {node.state_key} |->
                        IF k = node.state_key THEN value ELSE st[k]]]

-----------------------------------------------------------------------------
(* state.py: make_object_text, make_skill_text, make_state *)

RECURSIVE object_lines(_, _, _)
object_lines(objects, i, text) ==
    IF i > Len(objects) THEN text
    ELSE object_lines(objects, i + 1,
                      text \o "\"object_name\": \"" \o objects[i] \o "\",\n")

\* total_object_text = "{{\n" + one line per object + "}}"
make_object_text(objects) == object_lines(objects, 1, "{{\n") \o "}}"

\* the inner loop: skill_text += skill, then ", " unless skill equals the
\* last element of the list
RECURSIVE skill_loop(_, _, _)
skill_loop(skills, i, text) ==
    IF i > Len(skills) THEN text
    ELSE skill_loop(skills, i + 1,
                    text \o skills[i]
                         \o (IF skills[i] # skills[Len(skills)] THEN ", "
                             ELSE ""))

robot_line(robot_skill) ==
    skill_loop(robot_skill.skills, 1,
               "from " \o robot_skill.name \o ".skills import ")

\* "\n".join(lines)
RECURSIVE join_lines(_, _, _)
join_lines(lines, i, text) ==
    IF i > Len(lines) THEN text
    ELSE join_lines(lines, i + 1,
                    text \o (IF i > 1 THEN "\n" ELSE "") \o lines[i])

make_skill_text(cs) ==
    join_lines([i \in 1..Len(cs) |-> robot_line(cs[i])], 1, "")

\* config.skills of the module-level config
default_skills ==
    << [name |-> "robot1",
        skills |-> <<"GoToObject", "PickObject", "PlaceObject">>] >>

\* the object inventories GET {url}/env may answer with
Inventories == {<<>>, <<"red_block">>, <<"red_block", "table">>}

StateKeys == {"user_queries", "inputs", "subgoals", "tasks"}

\* _make_base_state, then user_queries and inputs are set
make_state(user_query, objects) ==
    [user_queries |-> PyList(<<user_query>>),
     inputs |-> PyMap([object_text |-> make_object_text(objects),
                       skill_text |-> make_skill_text(default_skills)]),
     subgoals |-> PyList(<<>>),
     tasks |-> PyList(<<>>)]

-----------------------------------------------------------------------------
(* the node callable: lines up to the chain call *)

\* prompts.make_*_node_inputs: assembles the placeholder mapping from the
\* state, as a mapping of its own
make_inputs(st) ==
    IF "inputs" \in DOMAIN st THEN st["inputs"].map ELSE NoMap

\* mutant: the format instructions are written into state["inputs"] itself
enter_alias(st, node) ==
    LET ins == IF node.format_instructions
               THEN [k \in DOMAIN make_inputs(st) \cup {"format_instructions"}
                       |-> IF k = "format_instructions" THEN "schema"
                           ELSE make_inputs(st)[k]]
               ELSE make_inputs(st)
    IN [inputs |-> ins,
        state |-> IF "inputs" \in DOMAIN st
                  THEN [st EXCEPT !["inputs"] = PyMap(ins)]
                  ELSE st]

\* inputs = make_inputs(state); if format_instructions:
\* inputs["format_instructions"] = format_instructions
enter(st, node) ==
    LET ins == IF node.format_instructions
               THEN [k \in DOMAIN make_inputs(st) \cup {"format_instructions"}
                       |-> IF k = "format_instructions" THEN "schema"
                           ELSE make_inputs(st)[k]]
               ELSE make_inputs(st)
    IN [inputs |-> ins, state |-> st]

-----------------------------------------------------------------------------
(* create_graph *)

Nodes == {"goal_decomp", "task_decomp"}
START == "__start__"
END == "__end__"

goal_node == make_llm_node("GoalDecompNodeParser", "subgoals", FALSE, FALSE)

\* mutant: the task node is built with state_append=True
task_node_append == make_llm_node("TaskDecompNodeParser", "tasks", TRUE, FALSE)

task_node == make_llm_node("TaskDecompNodeParser", "tasks", FALSE, FALSE)

\* workflow.add_node(name, callable)
node_of(n) == IF n = "goal_decomp" THEN goal_node ELSE task_node

\* mutant: the second edge starts at START, so both nodes are entry nodes
edges_fan_out ==
    {<<START, "goal_decomp">>, <<START, "task_decomp">>,
     <<"task_decomp", END>>}

\* workflow.add_edge(...), three times
edges ==
    {<<START, "goal_decomp">>, <<"goal_decomp", "task_decomp">>,
     <<"task_decomp", END>>}

\* the order in which create_graph builds the two clients
NextToBuild(n) == IF n = "goal_decomp" THEN "task_decomp" ELSE "none"

\* the nodes the runner schedules after the nodes of S have returned
Successors(S, E) == {e[2] : e \in {f \in E : f[1] \in S}} \ {END}

-----------------------------------------------------------------------------
(* The pipeline: create_graph, then one run of the compiled graph *)

NodeIdle ==
    /\ gnode = make_llm_node("none", "history", TRUE, FALSE)
    /\ gstate = [k \in {} |-> PyNone]
    /\ gprior = [k \in {} |-> PyNone]
    /\ gpc = "off"
    /\ gresult = PyNone
    /\ gerr = NoError

SkillIdle ==
    /\ config_skills = <<>>
    /\ skill_text = ""
    /\ spc = "off"

InitPipeline ==
    /\ cfg \in [Nodes -> ModelIds]
    /\ initial \in {make_state(q, objs) : q \in Queries, objs \in Inventories}
    /\ pc = "resolve"
    /\ cur = "goal_decomp"
    /\ resolved = [n \in Nodes |-> NoMember]
    /\ clients = [n \in Nodes |-> NoClient]
    /\ plan = NoPlan
    /\ state = initial
    /\ frontier = {}
    /\ nodePc = [n \in Nodes |-> "idle"]
    /\ invoked = <<>>
    /\ calls = [n \in Nodes |-> 0]
    /\ response = [n \in Nodes |-> NoResponse]
    /\ nodeInputs = [n \in Nodes |-> NoMap]
    /\ result = [n \in Nodes |-> PyNone]
    /\ error = NoError
    /\ failedNode = "none"
    /\ returned = FALSE

Init == InitPipeline /\ NodeIdle /\ SkillIdle

runVars == <<state, frontier, nodePc, invoked, calls, response, nodeInputs,
             result, returned>>

\* _resolve_model_enum(config.runner.<cur>.model_name), the argument of
\* create_llm: a miss raises out of create_graph
ResolveModel ==
    /\ pc = "resolve"
    /\ LET r == resolve_model_enum(cfg[cur])
       IN IF r.ok
          THEN /\ resolved' = [resolved EXCEPT ![cur] = r.member]
               /\ pc' = "create"
               /\ UNCHANGED <<error, failedNode>>
          ELSE /\ pc' = "build_failed"
               /\ error' = r.err
               /\ failedNode' = cur
               /\ UNCHANGED resolved
    /\ UNCHANGED <<cfg, initial, cur, clients, plan, runVars>>
    /\ UNCHANGED <<nvars, svars>>

\* create_llm(model_name=<member>, prompt_cache_key=...)
CreateLLM ==
    /\ pc = "create"
    /\ clients' = [clients EXCEPT
                     ![cur] = create_llm(resolved[cur], prompt_cache_key(cur))]
    /\ IF NextToBuild(cur) = "none"
       THEN pc' = "wire" /\ UNCHANGED cur
       ELSE pc' = "resolve" /\ cur' = NextToBuild(cur)
    /\ UNCHANGED <<cfg, initial, resolved, plan, error, failedNode, runVars>>
    /\ UNCHANGED <<nvars, svars>>

\* make_llm_node twice, StateGraph, add_node twice, add_edge three times,
\* compile
Wire ==
    /\ pc = "wire"
    /\ plan' = [nodes |-> Nodes, edges |-> edges, compiled |-> TRUE]
    /\ pc' = "compiled"
    /\ UNCHANGED <<cfg, initial, cur, resolved, clients, error, failedNode,
                   runVars>>
    /\ UNCHANGED <<nvars, svars>>

\* graph.invoke(state): the runner schedules the successors of START
Invoke ==
    /\ pc = "compiled"
    /\ plan.compiled
    /\ state' = initial
    /\ frontier' = Successors({START}, plan.edges)
    /\ pc' = "running"
    /\ UNCHANGED <<cfg, initial, cur, resolved, clients, plan, nodePc, invoked,
                   calls, response, nodeInputs, result, error, failedNode,
                   returned>>
    /\ UNCHANGED <<nvars, svars>>

\* the node callable is entered: logger.info, make_inputs, format instructions
NodeStart(n) ==
    /\ pc = "running"
    /\ n \in frontier
    /\ nodePc[n] = "idle"
    /\ LET e == enter(state, node_of(n))
       IN /\ nodeInputs' = [nodeInputs EXCEPT ![n] = e.inputs]
          /\ state' = e.state
    /\ invoked' = Append(invoked, n)
    /\ nodePc' = [nodePc EXCEPT ![n] = "started"]
    /\ UNCHANGED <<cfg, initial, pc, cur, resolved, clients, plan, frontier,
                   calls, response, result, error, failedNode, returned>>
    /\ UNCHANGED <<nvars, svars>>

\* mutant: the failed call is attempted again
retry_from_node(n, err) ==
    /\ UNCHANGED <<pc, error, failedNode, nodePc, state>>

\* mutant: the exception is swallowed and None is committed as the result
raise_after_commit(n, err) ==
    /\ pc' = "failed"
    /\ error' = err
    /\ failedNode' = n
    /\ nodePc' = [nodePc EXCEPT ![n] = "raised"]
    /\ state' = commit(state, [node_of(n) EXCEPT !.state_append = FALSE],
                       PyNone).state

\* an exception leaves the node callable (it has no handler) and the run:
\* graph.invoke raises it to the caller
raise_from_node(n, err) ==
    /\ pc' = "failed"
    /\ error' = err
    /\ failedNode' = n
    /\ nodePc' = [nodePc EXCEPT ![n] = "raised"]
    /\ UNCHANGED state

\* result = chain.invoke(inputs)
NodeCall(n) ==
    /\ pc = "running"
    /\ nodePc[n] = "started"
    /\ calls' = [calls EXCEPT ![n] = @ + 1]
    /\ \E resp \in Responses :
         LET r == chain_invoke(node_of(n), resp)
         IN /\ response' = [response EXCEPT ![n] = resp]
            /\ IF r.ok
               THEN /\ result' = [result EXCEPT ![n] = r.value]
                    /\ nodePc' = [nodePc EXCEPT ![n] = "called"]
                    /\ UNCHANGED <<pc, error, failedNode, state>>
               ELSE /\ raise_from_node(n, r.err)
                    /\ UNCHANGED result
    /\ UNCHANGED <<cfg, initial, cur, resolved, clients, plan, frontier,
                   invoked, nodeInputs, returned>>
    /\ UNCHANGED <<nvars, svars>>

\* model_dump, the commit into state[state_key], return state; when every
\* node of the step has returned the runner schedules their successors, and
\* returns the state when there are none
NodeCommit(n) ==
    /\ pc = "running"
    /\ nodePc[n] = "called"
    /\ LET node == node_of(n)
           c == commit(state, node, model_dump(node, result[n]))
           last == \A m \in frontier \ {n} : nodePc[m] = "returned"
           nxt == Successors(frontier, plan.edges)
       IN IF c.ok
          THEN /\ state' = c.state
               /\ result' = [result EXCEPT ![n] = model_dump(node, result[n])]
               /\ IF last
                  THEN /\ frontier' = nxt
                       /\ nodePc' = [m \in Nodes |->
                                       IF m \in nxt THEN "idle"
                                       ELSE IF m = n THEN "returned"
                                       ELSE nodePc[m]]
                       /\ pc' = IF nxt = {} THEN "done" ELSE pc
                       /\ returned' = (nxt = {})
                  ELSE /\ nodePc' = [nodePc EXCEPT ![n] = "returned"]
                       /\ UNCHANGED <<frontier, pc, returned>>
               /\ UNCHANGED <<error, failedNode>>
          ELSE /\ raise_from_node(n, c.err)
               /\ UNCHANGED <<result, frontier, returned>>
    /\ UNCHANGED <<cfg, initial, cur, resolved, clients, plan, invoked, calls,
                   response, nodeInputs>>
    /\ UNCHANGED <<nvars, svars>>

Next ==
    \/ ResolveModel
    \/ CreateLLM
    \/ Wire
    \/ Invoke
    \/ \E n \in Nodes : NodeStart(n)
    \/ \E n \in Nodes : NodeCall(n)
    \/ \E n \in Nodes : NodeCommit(n)

Spec == Init /\ [][Next]_vars

-----------------------------------------------------------------------------
(* SpecNode: one invocation of a node built by make_llm_node, on any state *)

PipelineIdle ==
    /\ cfg = [n \in Nodes |-> Member("gpt41mini")]
    /\ initial = make_state(1, <<>>)
    /\ pc = "off"
    /\ cur = "goal_decomp"
    /\ resolved = [n \in Nodes |-> NoMember]
    /\ clients = [n \in Nodes |-> NoClient]
    /\ plan = NoPlan
    /\ state = initial
    /\ frontier = {}
    /\ nodePc = [n \in Nodes |-> "idle"]
    /\ invoked = <<>>
    /\ calls = [n \in Nodes |-> 0]
    /\ response = [n \in Nodes |-> NoResponse]
    /\ nodeInputs = [n \in Nodes |-> NoMap]
    /\ result = [n \in Nodes |-> PyNone]
    /\ error = NoError
    /\ failedNode = "none"
    /\ returned = FALSE

\* the lists a state field may hold
Lists == UNION {[1..k -> Payloads] : k \in 0..MaxLen}

\* state keys of the generic node: make_llm_node's default and a schema field
GKeys == {"history", "tasks"}

\* StateSchema is total=False: any subset of the keys may be present
GStates == UNION {[K -> {PyList(l) : l \in Lists}] : K \in SUBSET GKeys}

GNodes ==
    {make_llm_node(po, key, app, skip) :
        po \in {"none", "TaskDecompNodeParser"}, key \in GKeys,
        app \in BOOLEAN, skip \in BOOLEAN}

InitNode ==
    /\ gnode \in GNodes
    /\ gstate \in GStates
    /\ gprior = gstate
    /\ gpc = "ready"
    /\ gresult = PyNone
    /\ gerr = NoError

\* the node callable is entered
GStart ==
    /\ gpc = "ready"
    /\ gstate' = enter(gstate, gnode).state
    /\ gpc' = "started"
    /\ UNCHANGED <<gnode, gprior, gresult, gerr>>
    /\ UNCHANGED <<pvars, svars>>

\* result = chain.invoke(inputs)
GCall ==
    /\ gpc = "started"
    /\ \E resp \in Responses :
         LET r == chain_invoke(gnode, resp)
         IN IF r.ok
            THEN gresult' = r.value /\ gpc' = "called" /\ UNCHANGED gerr
            ELSE gerr' = r.err /\ gpc' = "raised_in_call" /\ UNCHANGED gresult
    /\ UNCHANGED <<gnode, gstate, gprior>>
    /\ UNCHANGED <<pvars, svars>>

\* model_dump, the commit into state[state_key], return state
GCommit ==
    /\ gpc = "called"
    /\ LET v == model_dump(gnode, gresult)
           c == commit(gstate, gnode, v)
       IN /\ gresult' = v
          /\ IF c.ok
             THEN gstate' = c.state /\ gpc' = "returned" /\ UNCHANGED gerr
             ELSE gerr' = c.err /\ gpc' = "raised_in_commit" /\ UNCHANGED gstate
    /\ UNCHANGED <<gnode, gprior>>
    /\ UNCHANGED <<pvars, svars>>

NextNode == GStart \/ GCall \/ GCommit

InitN == PipelineIdle /\ InitNode /\ SkillIdle

SpecNode == InitN /\ [][NextNode]_vars

-----------------------------------------------------------------------------
(* SpecSkill: make_skill_text on any skill configuration *)

RobotNames == {"robot1", "robot2"}
SkillIds == {"GoToObject", "PickObject"}
SkillLists == UNION {[1..k -> SkillIds] : k \in 0..MaxSkills}
Robots == {[name |-> nm, skills |-> sk] : nm \in RobotNames, sk \in SkillLists}
SkillConfigs == UNION {[1..k -> Robots] : k \in 0..MaxRobots}

InitSkill ==
    /\ config_skills \in SkillConfigs
    /\ skill_text = ""
    /\ spc = "ready"

Render ==
    /\ spc = "ready"
    /\ skill_text' = make_skill_text(config_skills)
    /\ spc' = "rendered"
    /\ UNCHANGED config_skills
    /\ UNCHANGED <<pvars, nvars>>

NextSkill == Render

InitS == PipelineIdle /\ NodeIdle /\ InitSkill

SpecSkill == InitS /\ [][NextSkill]_vars

-----------------------------------------------------------------------------
(* Properties *)

\* the nodes whose callable has been entered and has neither returned nor
\* raised
executing == {n \in Nodes : nodePc[n] \in {"started", "called"}}

\* the nodes in the order the edges START -> goal_decomp -> task_decomp -> END
\* declare them
DeclaredOrder == <<"goal_decomp", "task_decomp">>

IsPrefix(s, t) == Len(s) <= Len(t) /\ \A i \in 1..Len(s) : s[i] = t[i]

Position(n) == CHOOSE i \in 1..Len(DeclaredOrder) : DeclaredOrder[i] = n

Entered(n) == \E i \in 1..Len(invoked) : invoked[i] = n

EmptyList == PyList(<<>>)

\* C1: a run of the plan START -> goal_decomp -> task_decomp -> END enters the
\* nodes one at a time and in edge order: at most one node is executing, the
\* nodes entered so far are a prefix of the declared order (so none is entered
\* twice), task_decomp is entered only after goal_decomp has returned with its
\* result committed into subgoals, and a completed run has entered each node
\* exactly once, with no node executing once task_decomp has returned.
C1_SequentialInEdgeOrder ==
    /\ Cardinality(executing) <= 1
    /\ IsPrefix(invoked, DeclaredOrder)
    /\ Entered("task_decomp") =>
         /\ nodePc["goal_decomp"] = "returned"
         /\ state["subgoals"] = PyDump(response["goal_decomp"].payload)
    /\ pc = "done" =>
         /\ invoked = DeclaredOrder
         /\ executing = {}
         /\ \A n \in Nodes : nodePc[n] = "returned"
         /\ ~ENABLED Next

C1_Witness ==
    /\ pc = "done"
    /\ invoked = <<"goal_decomp", "task_decomp">>
    /\ returned

\* C2: when the run completes, state.tasks is exactly the dumped parse of what
\* the task node's client answered: a dict, not a list holding it, not the
\* initial value and not the goal node's output.
C2_TasksIsNodeOutput ==
    pc = "done" =>
        /\ response["task_decomp"].transport = "ok"
        /\ response["task_decomp"].wellformed
        /\ state["tasks"] = PyDump(response["task_decomp"].payload)
        /\ state["tasks"] = result["task_decomp"]
        /\ state["tasks"].kind = "dict"

C2_Witness ==
    /\ pc = "done"
    /\ initial["tasks"] = EmptyList
    /\ response["goal_decomp"].payload = 1
    /\ response["task_decomp"].payload = 2
    /\ state["tasks"] = PyDump(2)

\* C3: when a node's model call or its parsing raises, the run is over: the
\* error reaches the caller, nothing is returned, no step is enabled, the
\* failing node and every node after it in edge order have left their fields
\* at the initial empty list, and no later node was entered or made a call.
C3_FailureCommitsNothing ==
    pc = "failed" =>
        /\ failedNode \in Nodes
        /\ error \in {"APIConnectionError", "OutputParserException"}
        /\ ~returned
        /\ ~ENABLED Next
        /\ \A m \in Nodes :
             Position(m) >= Position(failedNode) =>
                /\ state[node_of(m).state_key] = EmptyList
                /\ initial[node_of(m).state_key] = EmptyList
                /\ m # failedNode => (~Entered(m) /\ calls[m] = 0)

C3_Witness ==
    /\ pc = "failed"
    /\ failedNode = "task_decomp"
    /\ error = "APIConnectionError"
    /\ state["subgoals"] = PyDump(1)
    /\ state["tasks"] = EmptyList

Resolvable(id) ==
    \/ id.isMember
    \/ \E m \in ModelNames : ModelValue(m) = id.text
    \/ id.text \in ModelNames

MatchingMember(id) ==
    CHOOSE m \in ModelNames :
        IF id.isMember THEN m = id.text
        ELSE ModelValue(m) = id.text \/ m = id.text

\* the name section 7 of the specification gives to an exception of the code
SpecErrorName(e) ==
    IF e = "KeyError" THEN "UnknownModelError"
    ELSE IF e = "APIConnectionError" THEN "ModelInvocationError"
    ELSE IF e = "OutputParserException" THEN "OutputParseError"
    ELSE e

C8_OneCallNoRetry ==
    /\ \A n \in Nodes :
         /\ calls[n] <= 1
         /\ nodePc[n] \in {"idle", "started"} => calls[n] = 0
         /\ nodePc[n] \in {"called", "returned", "raised"} => calls[n] = 1
    /\ calls["goal_decomp"] + calls["task_decomp"] <= Cardinality(Nodes)
    /\ pc = "running" => calls["goal_decomp"] + calls["task_decomp"]
                            <= Cardinality(plan.nodes)

C8_Witness ==
    /\ pc = "failed"
    /\ error = "OutputParserException"
    /\ failedNode = "task_decomp"
    /\ calls = [n \in Nodes |-> 1]

\* the list at the node's field before the invocation, empty when absent
PriorItems ==
    IF gnode.state_key \in DOMAIN gprior
    THEN gprior[gnode.state_key].items
    ELSE <<>>

\* C9: a node built in append mode whose model call succeeded returns, and
\* leaves at its field the prior list (empty when the field was absent)
\* followed by the node's result; an absent field never makes it raise.
C9_AppendToleratesAbsentField ==
    (gnode.state_append /\ gpc \in {"returned", "raised_in_commit"}) =>
        /\ gpc = "returned"
        /\ gerr = NoError
        /\ gnode.state_key \in DOMAIN gstate
        /\ gstate[gnode.state_key]
              = PyList(Append(PriorItems, Element(gresult)))

\* the skills in order with ", " between consecutive ones
RECURSIVE separated(_, _)
separated(skills, i) ==
    IF i > Len(skills) THEN ""
    ELSE skills[i] \o (IF i < Len(skills) THEN ", " ELSE "")
                   \o separated(skills, i + 1)

RECURSIVE lines_in_order(_, _)
lines_in_order(cs, i) ==
    IF i > Len(cs) THEN ""
    ELSE "from " \o cs[i].name \o ".skills import "
         \o separated(cs[i].skills, 1)
         \o (IF i < Len(cs) THEN "\n" ELSE "")
         \o lines_in_order(cs, i + 1)

\* C10: make_skill_text renders one line per robot, in configuration order,
\* each "from <name>.skills import " followed by the skills in order with
\* ", " between consecutive skills and nothing after the last one.
C10_SkillsCommaSeparated ==
    spc = "rendered" => skill_text = lines_in_order(config_skills, 1)

=============================================================================
